---- MODULE Spec2Model ----
(***************************************************************************)
(* Model of the restaurant menu optimizer of Kazaorus/MAG:                 *)
(*   assets/custom/action/RestaurantOptimization.py  (RestaurantOptimizer) *)
(*   assets/custom/action/RestaurantMain.py          (RestaurantMainProcess)*)
(*   assets/custom/recognition/RestaurantAssistant.py (ShopPurchase)       *)
(*                                                                         *)
(* Python dicts are functions whose DOMAIN is the set of keys; a missing    *)
(* key is a name outside the DOMAIN.  Python floats that the code only      *)
(* compares or truncates are exact fractions [n |-> .., d |-> ..], d > 0.   *)
(***************************************************************************)
EXTENDS Integers, Sequences, FiniteSets, TLC

(***************************************************************************)
(* Bounds of the model.                                                    *)
(***************************************************************************)
MaxDishes == 2      \* dish records in dishes.json
MaxPrice == 2       \* 'profit' of a dish record
MaxReq == 2         \* quantity of the first ingredient a dish needs per unit
MaxStock == 2       \* scanned quantity of one ingredient (warehouse or shop)
MaxCalls == 2       \* calls of find_best_solution on one optimizer
TieDishes == 3      \* dishes of the catalogs on which ties between pairs are examined
MaxResults == 2     \* recognition results on one page of the shop
MaxPageNum == 5     \* page_num of ShopPurchase.run up to which empty pages are followed

(***************************************************************************)
(* Program constants.                                                      *)
(***************************************************************************)
DefaultTimeLimit == 24      \* __init__: time_limit: float = 24   (hours)
DefaultMaxSlots == 2        \* __init__: max_slots: int = 2
DefaultUnlockLevel == 3     \* _load_dishes: dic_dish.get('unlock_level', 3)
DefaultPrice == 0           \* _load_dishes: dic_dish.get('profit', 0)
DefaultSellTime == 0        \* _load_dishes: dic_dish.get('sell_time', 0)

(***************************************************************************)
(* Generic helpers: dict access, truncating int(), fractions.              *)
(***************************************************************************)
\* dict.get(key, default)
Get(dict, key, default) == IF key \in DOMAIN dict THEN dict[key] ELSE default

\* int(a / b) for b > 0: Python's int() truncates toward zero
IntDiv(a, b) == IF a >= 0 THEN a \div b ELSE -((-a) \div b)

Min(a, b) == IF a <= b THEN a ELSE b

Frac(n, d) == [n |-> n, d |-> d]
FracLess(a, b) == a.n * b.d < b.n * a.d
\* max(a, b) of Python: b only when b is strictly greater
FracMax(a, b) == IF FracLess(a, b) THEN b ELSE a

\* All functions from a subset of S to T: the dicts with keys in S, values in T
Dicts(S, T) == UNION { [K -> T] : K \in SUBSET S }

EmptyDict == [k \in {} |-> 0]

(***************************************************************************)
(* Dish (dataclass) and its profit_rate property.                          *)
(***************************************************************************)
Dish(name, cookware, price, time, unlock_level, ingredients) ==
    [name |-> name, cookware |-> cookware, price |-> price, time |-> time,
     unlock_level |-> unlock_level, ingredients |-> ingredients]

\* price / time if time > 0 else 0
profit_rate(dish) == IF dish.time > 0 THEN Frac(dish.price, dish.time) ELSE Frac(0, 1)

MenuSolution(dish, count, bar_ratio) ==
    [dish |-> dish, count |-> count, bar_ratio |-> bar_ratio]

(***************************************************************************)
(* RestaurantOptimizer: pure parts.  `self` is the record of the fields    *)
(* the methods read.                                                       *)
(***************************************************************************)
\* _calc_time_limit
calc_time_limit(self, dish) ==
    IF dish.time <= 0 THEN 0 ELSE IntDiv(self.time_limit, dish.time)

\* the ingredients of a dish that are needed in positive quantity
Required(dish) == { i \in DOMAIN dish.ingredients : dish.ingredients[i] > 0 }

\* _calc_ingredient_limit: the min, over the ingredients needed in positive
\* quantity, of available.get(ingredient, 0) // required; 0 when max_count is
\* still float('inf') after the loop
calc_ingredient_limit(dish, available) ==
    LET quotients == { Get(available, i, 0) \div dish.ingredients[i] : i \in Required(dish) }
    IN IF quotients = {} THEN 0
       ELSE CHOOSE m \in quotients : \A q \in quotients : m <= q

\* _optimize_single_dish: (count, profit)
optimize_single_dish(self, dish) ==
    LET count == Min(calc_time_limit(self, dish),
                     calc_ingredient_limit(dish, self.total_ingredients))
    IN [count |-> count, profit |-> count * dish.price]

\* _calc_bar_ratio returning the ingredients it was given, nothing consumed
calc_bar_ratio_nothing_consumed(dish, count, available_ingredients) ==
    LET req == Required(dish)
        max_makeable(i) == Get(available_ingredients, i, 0) \div dish.ingredients[i]
        current_ratio(i) == IF max_makeable(i) > 0 THEN Frac(count, max_makeable(i))
                            ELSE Frac(0, 1)
        ratios == { current_ratio(i) : i \in req }
        ratio == IF ratios = {} THEN Frac(0, 1)
                 ELSE FracMax(Frac(0, 1),
                              CHOOSE r \in ratios : \A q \in ratios : ~FracLess(r, q))
    IN [ratio |-> ratio, remaining |-> available_ingredients]

\* _calc_bar_ratio: (ratio, current_ingredients)
calc_bar_ratio(dish, count, available_ingredients) ==
    LET req == Required(dish)
        max_makeable(i) == Get(available_ingredients, i, 0) \div dish.ingredients[i]
        current_ratio(i) == IF max_makeable(i) > 0 THEN Frac(count, max_makeable(i))
                            ELSE Frac(0, 1)
        ratios == { current_ratio(i) : i \in req }
        ratio == IF ratios = {} THEN Frac(0, 1)
                 ELSE FracMax(Frac(0, 1),
                              CHOOSE r \in ratios : \A q \in ratios : ~FracLess(r, q))
        remaining_amount(i) ==
            LET r == Get(available_ingredients, i, 0) - dish.ingredients[i] * count
            IN IF r < 0 THEN 0 ELSE r
        current_ingredients ==
            [i \in DOMAIN available_ingredients \cup req |->
                IF i \in req THEN remaining_amount(i) ELSE available_ingredients[i]]
    IN [ratio |-> ratio, remaining |-> current_ingredients]

\* _optimize_two_dishes, lines 157-169: can count1 units of dish1 be made
can_make(self, dish1, count1) ==
    \A i \in DOMAIN dish1.ingredients :
        ~(count1 * dish1.ingredients[i] > Get(self.total_ingredients, i, 0))

\* lines 171-174 with the used ingredients not taken off
remaining_after_nothing_used(self, dish1, count1) == self.total_ingredients

\* _optimize_two_dishes, lines 171-174
remaining_after(self, dish1, count1) ==
    [i \in DOMAIN self.total_ingredients |->
        self.total_ingredients[i] - Get([k \in DOMAIN dish1.ingredients |->
                                            count1 * dish1.ingredients[k]], i, 0)]

\* does _optimize_two_dishes exchange the two dishes (line 148)
swapped(dish1, dish2) == FracLess(profit_rate(dish1), profit_rate(dish2))

\* lines 148-149 and 155: the dish called dish1 after the exchange, whose count
\* the for loop enumerates
enumerated(dish1, dish2) == IF swapped(dish1, dish2) THEN dish2 ELSE dish1

\* lines 148-149 and 177-180: the dish called dish2 after the exchange, whose
\* count is the most the remaining ingredients and its time allow
derived(dish1, dish2) == IF swapped(dish1, dish2) THEN dish1 ELSE dish2

RECURSIVE two_dishes_loop_counts_not_swapped_back(_, _, _, _, _, _)
\* the loop with lines 187-190 always taking the branch of line 190
two_dishes_loop_counts_not_swapped_back(self, d1, d2, sw, count1, best) ==
    IF count1 > calc_time_limit(self, d1) THEN best
    ELSE IF ~can_make(self, d1, count1) THEN best
    ELSE LET ingredient_limit2 ==
                 calc_ingredient_limit(d2, remaining_after(self, d1, count1))
             count2 == Min(calc_time_limit(self, d2), ingredient_limit2)
             profit == count1 * d1.price + count2 * d2.price
             next == IF profit > best.profit
                     THEN [counts |-> <<count1, count2>>, profit |-> profit]
                     ELSE best
         IN two_dishes_loop_counts_not_swapped_back(self, d1, d2, sw, count1 + 1, next)

RECURSIVE two_dishes_loop_from_one(_, _, _, _, _, _)
\* the loop with range(1, time_limit1 + 1) for range(time_limit1 + 1)
two_dishes_loop_from_one(self, d1, d2, sw, count1, best) ==
    IF count1 = 0 THEN two_dishes_loop_from_one(self, d1, d2, sw, 1, best)
    ELSE IF count1 > calc_time_limit(self, d1) THEN best
    ELSE IF ~can_make(self, d1, count1) THEN best
    ELSE LET ingredient_limit2 ==
                 calc_ingredient_limit(d2, remaining_after(self, d1, count1))
             count2 == Min(calc_time_limit(self, d2), ingredient_limit2)
             profit == count1 * d1.price + count2 * d2.price
             next == IF profit > best.profit
                     THEN [counts |-> IF sw THEN <<count2, count1>> ELSE <<count1, count2>>,
                           profit |-> profit]
                     ELSE best
         IN two_dishes_loop_from_one(self, d1, d2, sw, count1 + 1, next)

RECURSIVE two_dishes_loop(_, _, _, _, _, _)
\* the for loop of _optimize_two_dishes from count1 on; d1 is the enumerated
\* dish, d2 the derived one, sw the flag `swapped`, best = (best_counts, best_profit)
two_dishes_loop(self, d1, d2, sw, count1, best) ==
    IF count1 > calc_time_limit(self, d1) THEN best
    ELSE IF ~can_make(self, d1, count1) THEN best
    ELSE LET ingredient_limit2 ==
                 calc_ingredient_limit(d2, remaining_after(self, d1, count1))
             count2 == Min(calc_time_limit(self, d2), ingredient_limit2)
             profit == count1 * d1.price + count2 * d2.price
             next == IF profit > best.profit
                     THEN [counts |-> IF sw THEN <<count2, count1>> ELSE <<count1, count2>>,
                           profit |-> profit]
                     ELSE best
         IN two_dishes_loop(self, d1, d2, sw, count1 + 1, next)

\* _optimize_two_dishes with the enumeration cut to count1 = 0
optimize_two_dishes_no_enumeration(self, dish1, dish2) ==
    LET sw == swapped(dish1, dish2)
        d2 == IF sw THEN dish1 ELSE dish2
        count2 == Min(calc_time_limit(self, d2),
                      calc_ingredient_limit(d2, self.total_ingredients))
    IN IF count2 * d2.price > 0
       THEN [counts |-> IF sw THEN <<count2, 0>> ELSE <<0, count2>>,
             profit |-> count2 * d2.price]
       ELSE [counts |-> <<0, 0>>, profit |-> 0]

\* _optimize_two_dishes: (best_counts, best_profit)
optimize_two_dishes(self, dish1, dish2) ==
    two_dishes_loop(self, enumerated(dish1, dish2), derived(dish1, dish2),
                    swapped(dish1, dish2), 0, [counts |-> <<0, 0>>, profit |-> 0])

\* best_solution starting below every profit
NoSolutionBelowZero == [dishes |-> <<>>, counts |-> <<>>, profit |-> 0 - 1]

\* best_solution of find_best_solution before the searches (lines 199-204)
NoSolution == [dishes |-> <<>>, counts |-> <<>>, profit |-> 0]

RECURSIVE single_search(_, _, _)
\* find_best_solution, lines 207-215: the single-dish loop from index k on
single_search(self, k, best) ==
    IF k > Len(self.unlocked_dishes) THEN best
    ELSE LET dish == self.unlocked_dishes[k]
             r == optimize_single_dish(self, dish)
         IN single_search(self, k + 1,
                IF r.profit > best.profit
                THEN [dishes |-> <<dish>>, counts |-> <<r.count>>, profit |-> r.profit]
                ELSE best)

\* itertools.combinations(range(1, n + 1), 2) as a sequence, in its order
RECURSIVE combinations_from(_, _, _)
combinations_from(n, i, j) ==
    IF i >= n THEN <<>>
    ELSE IF j > n THEN combinations_from(n, i + 1, i + 2)
    ELSE <<<<i, j>>>> \o combinations_from(n, i, j + 1)

combinations(n) == combinations_from(n, 1, 2)

RECURSIVE pair_search_not_strict(_, _, _, _)
\* the pair loop with `>=` for the `>` of line 224
pair_search_not_strict(self, pairs, k, best) ==
    IF k > Len(pairs) THEN best
    ELSE LET dish1 == self.unlocked_dishes[pairs[k][1]]
             dish2 == self.unlocked_dishes[pairs[k][2]]
             r == optimize_two_dishes(self, dish1, dish2)
         IN pair_search_not_strict(self, pairs, k + 1,
                IF r.profit >= best.profit
                THEN [dishes |-> <<dish1, dish2>>, counts |-> r.counts, profit |-> r.profit]
                ELSE best)

RECURSIVE pair_search(_, _, _, _)
\* find_best_solution, lines 219-230: the pair loop from the k-th pair on
pair_search(self, pairs, k, best) ==
    IF k > Len(pairs) THEN best
    ELSE LET dish1 == self.unlocked_dishes[pairs[k][1]]
             dish2 == self.unlocked_dishes[pairs[k][2]]
             r == optimize_two_dishes(self, dish1, dish2)
         IN pair_search(self, pairs, k + 1,
                IF r.profit > best.profit
                THEN [dishes |-> <<dish1, dish2>>, counts |-> r.counts, profit |-> r.profit]
                ELSE best)

\* lines 199-230 with the pair loop run whatever max_slots is
search_pairs_always(self) ==
    pair_search(self, combinations(Len(self.unlocked_dishes)), 1,
                single_search(self, 1, NoSolution))

\* lines 199-230 with the single-dish loop left out
search_without_singles(self) ==
    IF self.max_slots >= 2
    THEN pair_search(self, combinations(Len(self.unlocked_dishes)), 1, NoSolution)
    ELSE NoSolution

\* find_best_solution, lines 199-230: the chosen best_solution
search(self) ==
    LET single == single_search(self, 1, NoSolution)
    IN IF self.max_slots >= 2
       THEN pair_search(self, combinations(Len(self.unlocked_dishes)), 1, single)
       ELSE single

RECURSIVE realize(_, _, _, _)
\* find_best_solution, lines 236-240: the plan entries from index idx on, with
\* the remaining ingredients threaded from one entry to the next
realize(best, idx, remaining_ingredients, solutions) ==
    IF idx > Len(best.dishes) THEN solutions
    ELSE LET dish == best.dishes[idx]
             count == best.counts[idx]
             r == calc_bar_ratio(dish, count, remaining_ingredients)
         IN realize(best, idx + 1, r.remaining,
                    Append(solutions, MenuSolution(dish, count, r.ratio)))

\* lines 243-248 without the test of line 244
add_demand_unrestricted(self, purchase_plan, dish, count) ==
    LET names == DOMAIN dish.ingredients
    IN [n \in DOMAIN purchase_plan \cup names |->
           IF n \in names
           THEN Get(purchase_plan, n, 0) + dish.ingredients[n] * count
           ELSE purchase_plan[n]]

\* find_best_solution, lines 243-248: the demand of one entry added to the plan
add_demand(self, purchase_plan, dish, count) ==
    LET names == DOMAIN dish.ingredients \cap DOMAIN self.purchasable_ingredients
    IN [n \in DOMAIN purchase_plan \cup names |->
           IF n \in names
           THEN Get(purchase_plan, n, 0) + dish.ingredients[n] * count
           ELSE purchase_plan[n]]

RECURSIVE total_demand(_, _, _, _)
\* find_best_solution, lines 236-248: purchase_plan after the loop over entries
total_demand(self, best, idx, purchase_plan) ==
    IF idx > Len(best.dishes) THEN purchase_plan
    ELSE total_demand(self, best, idx + 1,
                      add_demand(self, purchase_plan, best.dishes[idx], best.counts[idx]))

\* lines 251-253 without the clamp at 0
rectified_demand_unclamped(self, name, demand) ==
    demand - Get(self.warehouse_storage, name, 0)

\* lines 251-253 without the warehouse taken off the demand
rectified_demand_warehouse_ignored(self, name, demand) == demand

\* find_best_solution, lines 251-253: the demand less what the warehouse holds
rectified_demand(self, name, demand) ==
    LET rectified == demand - Get(self.warehouse_storage, name, 0)
    IN IF rectified > 0 THEN rectified ELSE 0

\* find_best_solution, lines 232-255: (solutions, purchase_plan)
find_best_solution(self) ==
    LET best == search(self)
        demand == total_demand(self, best, 1, EmptyDict)
    IN [solutions |-> realize(best, 1, self.total_ingredients, <<>>),
        purchase_plan |-> [n \in DOMAIN demand |-> rectified_demand(self, n, demand[n])]]

RECURSIVE realize_remaining(_, _, _)
\* find_best_solution, lines 235-239: remaining_ingredients after the entries
realize_remaining(best, idx, remaining_ingredients) ==
    IF idx > Len(best.dishes) THEN remaining_ingredients
    ELSE realize_remaining(best, idx + 1,
             calc_bar_ratio(best.dishes[idx], best.counts[idx], remaining_ingredients).remaining)

\* total_ingredients after the call had lines 111 and 235 not copied the dict
total_ingredients_aliased(self) ==
    realize_remaining(search(self), 1, self.total_ingredients)

\* find_best_solution, lines 235 and 111: self.total_ingredients after the call;
\* the entries are realized on copies, the dict of the optimizer is not written
total_ingredients_after(self) == self.total_ingredients

(***************************************************************************)
(* RestaurantOptimizer: loading and construction.                          *)
(*                                                                         *)
(* dishes.json is {cookware: [record, ...]}; the model keeps the records in *)
(* the order the two nested loops of _load_dishes visit them, each with its *)
(* cookware.  A record is a function from the field names it has.           *)
(***************************************************************************)
Raised == [ok |-> FALSE]

\* _load_dishes raising on any missing field
load_dishes_all_required(file_dishes) ==
    IF \E k \in 1..Len(file_dishes) :
          ~({"dish_id", "profit", "sell_time", "unlock_level", "ingredients"}
                \subseteq DOMAIN file_dishes[k].record)
    THEN Raised
    ELSE [ok |-> TRUE,
          dishes |-> [k \in 1..Len(file_dishes) |->
              LET dic_dish == file_dishes[k].record
              IN Dish(dic_dish["dish_id"], file_dishes[k].cookware, dic_dish["profit"],
                      dic_dish["sell_time"], dic_dish["unlock_level"],
                      dic_dish["ingredients"])]]

\* _load_dishes: KeyError when a record lacks 'dish_id' or 'ingredients';
\* 'profit', 'sell_time' and 'unlock_level' have defaults
load_dishes(file_dishes) ==
    IF \E k \in 1..Len(file_dishes) :
          ~({"dish_id", "ingredients"} \subseteq DOMAIN file_dishes[k].record)
    THEN Raised
    ELSE [ok |-> TRUE,
          dishes |-> [k \in 1..Len(file_dishes) |->
              LET dic_dish == file_dishes[k].record
              IN Dish(dic_dish["dish_id"],
                      file_dishes[k].cookware,
                      Get(dic_dish, "profit", DefaultPrice),
                      Get(dic_dish, "sell_time", DefaultSellTime),
                      Get(dic_dish, "unlock_level", DefaultUnlockLevel),
                      dic_dish["ingredients"])]]

\* _load_levels_and_ingredients: KeyError when 'levels' or 'ingredients' is missing
load_levels_and_ingredients(file_player_status) ==
    IF {"levels", "ingredients"} \subseteq DOMAIN file_player_status
    THEN [ok |-> TRUE, levels |-> file_player_status["levels"],
          ingredient_names |-> file_player_status["ingredients"]]
    ELSE Raised

\* the filter of the unlocked dishes with a strict comparison
is_unlocked_strictly_below(dish, levels) == dish.unlock_level < levels[dish.cookware]

\* __init__, line 57: the filter of the unlocked dishes
is_unlocked(dish, levels) == dish.unlock_level <= levels[dish.cookware]

RECURSIVE unlocked_from(_, _, _)
\* __init__, lines 56-58: the unlocked dishes among dishes[k..], in order
unlocked_from(dishes, levels, k) ==
    IF k > Len(dishes) THEN <<>>
    ELSE (IF is_unlocked(dishes[k], levels) THEN <<dishes[k]>> ELSE <<>>)
         \o unlocked_from(dishes, levels, k + 1)

\* __init__, line 50: int(time_limit * 60), time_limit a float (here a fraction)
to_minutes(time_limit) == IntDiv(time_limit.n * 60, time_limit.d)

\* __init__: the optimizer's fields, or Raised when loading raises
optimizer_init(file_dishes, file_status, warehouse_storage, shop_storage, time_limit, max_slots) ==
    LET status == load_levels_and_ingredients(file_status)
        loaded == load_dishes(file_dishes)
    IN IF ~status.ok THEN Raised
       ELSE IF ~loaded.ok THEN Raised
       ELSE IF \E k \in 1..Len(loaded.dishes) :
                  loaded.dishes[k].cookware \notin DOMAIN status.levels
       THEN Raised
       ELSE [ok |-> TRUE,
             time_limit |-> to_minutes(time_limit),
             max_slots |-> max_slots,
             warehouse_storage |-> warehouse_storage,
             purchasable_ingredients |-> shop_storage,
             unlocked_dishes |-> unlocked_from(loaded.dishes, status.levels, 1),
             total_ingredients |->
                 [name \in status.ingredient_names |->
                     Get(warehouse_storage, name, 0) + Get(shop_storage, name, 0)]]

(***************************************************************************)
(* RestaurantMainProcess.run: pure parts.                                  *)
(***************************************************************************)
\* float(estimated_selling_time) on the strings the model supplies: a value,
\* nan, an infinity, or ValueError
float(text) ==
    CASE text = "24"   -> [kind |-> "value", value |-> Frac(24, 1)]
      [] text = "1.5"  -> [kind |-> "value", value |-> Frac(3, 2)]
      [] text = "0.5"  -> [kind |-> "value", value |-> Frac(1, 2)]
      [] text = "0"    -> [kind |-> "value", value |-> Frac(0, 1)]
      [] text = "-1"   -> [kind |-> "value", value |-> Frac(0 - 1, 1)]
      [] text = "nan"  -> [kind |-> "nan"]
      [] text = "-inf" -> [kind |-> "inf"]
      [] OTHER         -> [kind |-> "ValueError"]

\* run, lines 35-39: the horizon the optimizer is built with, or the exception
\* that leaves run.  float() raises ValueError on text that is no number and
\* int(nan * 60) raises ValueError: both are caught and the default is used;
\* int(inf * 60) raises OverflowError, which is not caught.
decision(text) ==
    LET decision_time == float(text)
    IN CASE decision_time.kind = "value" -> [ok |-> TRUE, time_limit |-> decision_time.value]
         [] decision_time.kind = "inf"   -> Raised
         [] OTHER -> [ok |-> TRUE, time_limit |-> Frac(DefaultTimeLimit, 1)]

\* run, line 32-33: the shop is scanned unless the option is DoNotBuy
shop_storage_for(option, scan) == IF option # "DoNotBuy" THEN scan ELSE EmptyDict

\* lines 49-50 without the test of the values under OnlyBuyDemand
purchase_triggered_on_any_demand(demands, option) ==
    /\ DOMAIN demands # {}
    /\ option \in {"BuyAllDemand", "OnlyBuyDemand"}

\* run, lines 49-50: is the shop_purchase task run
purchase_triggered(demands, option) ==
    /\ DOMAIN demands # {}
    /\ \/ option = "BuyAllDemand"
       \/ /\ option = "OnlyBuyDemand"
          /\ \E n \in DOMAIN demands : demands[n] > 0

(***************************************************************************)
(* State.                                                                  *)
(***************************************************************************)
VARIABLES
    dishes_json,        \* content of dishes.json
    player_status,      \* content of player_status.json
    warehouse_scan,     \* warehouse stock: the scan, or the constructor's argument
    shop_scan,          \* shop stock: the scan, or the constructor's argument
    time_arg,           \* the horizon: hours, or run's text estimated_selling_time
    slots_arg,          \* max_slots handed to the constructor
    option,             \* run's ingredients_purchase_option
    pc,                 \* "start"/"run" (entry), "ready"/"loop" (optimizer built),
                        \* "raised", "return", "done"
    optimizer,          \* the fields of the RestaurantOptimizer
    returned,           \* what each call of find_best_solution returned, in order
    tasks,              \* the tasks run has run, in order
    purchase            \* ShopPurchase.run: its argument and its local variables

vars == <<dishes_json, player_status, warehouse_scan, shop_scan, time_arg, slots_arg,
          option, pc, optimizer, returned, tasks, purchase>>

inputs == <<dishes_json, player_status, warehouse_scan, shop_scan, time_arg, slots_arg,
            option>>

(***************************************************************************)
(* Input domains.                                                          *)
(***************************************************************************)
Ingredients == {"x", "y"}
Cookwares == {"wok", "oven"}
SellTimes == {0, 30, 60}
\* hours: -1/2, 3/2
Horizons == {Frac(0 - 1, 2), Frac(3, 2)}
Options == {"BuyAllDemand", "OnlyBuyDemand", "DoNotBuy"}
Texts == {"24", "1.5", "0.5", "0", "-1", "nan", "-inf", "abc", ""}

\* ingredient maps of dish records: "x" up to MaxReq per unit (0: listed but not
\* needed), "y" once, the empty map for a dish that needs nothing
ReqMaps == { m \in Dicts(Ingredients, 0..MaxReq) :
               ("y" \in DOMAIN m) => ((m["y"] = 1) /\ (("x" \in DOMAIN m) => (m["x"] > 0))) }

\* warehouse stock: "x" up to MaxStock, no "y"
WarehouseScans == { w \in [Ingredients -> 0..MaxStock] : w["y"] = 0 }

\* shop stock: "x" up to MaxStock or not on sale, one "y" or not on sale
ShopScans == { m \in Dicts(Ingredients, 0..MaxStock) : "y" \in DOMAIN m => m["y"] = 1 }

\* a complete dish record
DishRecord(id, profit, sell_time, unlock_level, ingredients) ==
    [dish_id |-> id, profit |-> profit, sell_time |-> sell_time,
     unlock_level |-> unlock_level, ingredients |-> ingredients]

\* the files with n complete records of unlocked dishes
Catalogs(n) ==
    [1..n -> { [cookware |-> "wok", record |-> DishRecord(0, p, t, 1, m)] :
                 p \in 0..MaxPrice, t \in SellTimes, m \in ReqMaps }]

\* dish_id of the k-th record is k
Named(file_dishes) ==
    [k \in 1..Len(file_dishes) |->
        [file_dishes[k] EXCEPT !.record = [@ EXCEPT !["dish_id"] = k]]]

StatusFile == [levels |-> [c \in Cookwares |-> 1], ingredients |-> Ingredients]

NoOptimizer == [ok |-> FALSE]

\* no ShopPurchase.run under way
NoPurchase == [page_num |-> 0]

\* an optimizer constructed on well-formed files
Init ==
    /\ \E n \in 0..MaxDishes : \E c \in Catalogs(n) : dishes_json = Named(c)
    /\ player_status = StatusFile
    /\ warehouse_scan \in WarehouseScans
    /\ shop_scan \in ShopScans
    /\ time_arg \in Horizons
    /\ slots_arg = DefaultMaxSlots
    /\ option = "BuyAllDemand"
    /\ pc = "ready"
    /\ optimizer = optimizer_init(dishes_json, player_status, warehouse_scan,
                                   shop_scan, time_arg, slots_arg)
    /\ returned = <<>>
    /\ tasks = <<>>
    /\ purchase = NoPurchase

(***************************************************************************)
(* Actions.                                                                *)
(***************************************************************************)
\* RestaurantOptimizer(data_path, warehouse_storage, shop_storage, time_limit, max_slots)
New ==
    /\ pc = "start"
    /\ optimizer' = optimizer_init(dishes_json, player_status, warehouse_scan,
                                    shop_scan, time_arg, slots_arg)
    /\ pc' = IF optimizer'.ok THEN "ready" ELSE "raised"
    /\ UNCHANGED <<inputs, returned, tasks, purchase>>

\* optimizer.find_best_solution()
Call ==
    /\ pc = "ready"
    /\ Len(returned) < MaxCalls
    /\ returned' = Append(returned, find_best_solution(optimizer))
    /\ optimizer' = [optimizer EXCEPT !.total_ingredients = total_ingredients_after(optimizer)]
    /\ UNCHANGED <<inputs, pc, tasks, purchase>>

Next == Call

Spec == Init /\ [][Next]_vars

\* an optimizer constructed with max_slots 1 or the default, horizon 3/2 hours
InitSlots ==
    /\ \E n \in 0..MaxDishes : \E c \in Catalogs(n) : dishes_json = Named(c)
    /\ player_status = StatusFile
    /\ warehouse_scan \in WarehouseScans
    /\ shop_scan \in ShopScans
    /\ time_arg = Frac(3, 2)
    /\ slots_arg \in 1..DefaultMaxSlots
    /\ option = "BuyAllDemand"
    /\ pc = "ready"
    /\ optimizer = optimizer_init(dishes_json, player_status, warehouse_scan,
                                   shop_scan, time_arg, slots_arg)
    /\ returned = <<>>
    /\ tasks = <<>>
    /\ purchase = NoPurchase

NextSlots == Call

SpecSlots == InitSlots /\ [][NextSlots]_vars

\* complete records of unlocked dishes that need "x", "y" or both, once each
TieRecords ==
    { [cookware |-> "wok", record |-> DishRecord(0, p, t, 1, m)] :
        p \in 1..MaxPrice, t \in {30, 60},
        m \in {[x |-> 1], [y |-> 1], [x |-> 1, y |-> 1]} }

\* an optimizer constructed on a catalog of TieDishes dishes, horizon 3/2 hours
InitTies ==
    /\ \E c \in [1..TieDishes -> TieRecords] : dishes_json = Named(c)
    /\ player_status = StatusFile
    /\ warehouse_scan \in WarehouseScans
    /\ shop_scan \in {[y |-> 1], [x |-> 1, y |-> 1]}
    /\ time_arg = Frac(3, 2)
    /\ slots_arg = DefaultMaxSlots
    /\ option = "BuyAllDemand"
    /\ pc = "ready"
    /\ optimizer = optimizer_init(dishes_json, player_status, warehouse_scan,
                                   shop_scan, time_arg, slots_arg)
    /\ returned = <<>>
    /\ tasks = <<>>
    /\ purchase = NoPurchase

NextTies == Call

SpecTies == InitTies /\ [][NextTies]_vars

(***************************************************************************)
(* Construction on files that may lack fields or levels.                   *)
(***************************************************************************)
Fields == {"dish_id", "profit", "sell_time", "unlock_level", "ingredients"}

Restrict(record, keys) == [f \in keys |-> record[f]]

\* dish records with any of their fields missing, unlock levels 2 and 3
LooseRecords ==
    { [cookware |-> c,
       record |-> Restrict(DishRecord(0, 1, 30, u, [x |-> 1]), keys)] :
         c \in Cookwares, u \in {2, 3}, keys \in SUBSET Fields }

\* dish_id of the k-th record is k where the record has one
NamedWherePresent(file_dishes) ==
    [k \in 1..Len(file_dishes) |->
        IF "dish_id" \in DOMAIN file_dishes[k].record
        THEN [file_dishes[k] EXCEPT !.record = [@ EXCEPT !["dish_id"] = k]]
        ELSE file_dishes[k]]

\* player_status.json: complete with one of two level maps, or lacking a field
LooseStatusFiles ==
    { [levels |-> [wok |-> 2, oven |-> 3], ingredients |-> Ingredients],
      [levels |-> [wok |-> 3], ingredients |-> Ingredients],
      [levels |-> [wok |-> 2, oven |-> 3]],
      [ingredients |-> Ingredients],
      EmptyDict }

InitLoad ==
    /\ \E n \in 0..MaxDishes : \E c \in [1..n -> LooseRecords] :
          dishes_json = NamedWherePresent(c)
    /\ player_status \in LooseStatusFiles
    /\ warehouse_scan = [x |-> 1, y |-> 0]
    /\ shop_scan = [x |-> 1]
    /\ time_arg = Frac(3, 2)
    /\ slots_arg = DefaultMaxSlots
    /\ option = "BuyAllDemand"
    /\ pc = "start"
    /\ optimizer = NoOptimizer
    /\ returned = <<>>
    /\ tasks = <<>>
    /\ purchase = NoPurchase

NextLoad == New \/ Call

SpecLoad == InitLoad /\ [][NextLoad]_vars

(***************************************************************************)
(* RestaurantMainProcess.run.                                              *)
(*                                                                         *)
(* tasks lists the recognitions, tasks and actions run asks the context     *)
(* for.  "enter_today_menu", "unshelve_dishes", "click_blank_below" and     *)
(* "return_to_main_menu" stand for the pipeline's nodes of lines 68, 69,    *)
(* 134 and 138.                                                             *)
(***************************************************************************)
RECURSIVE shelve_tasks(_, _, _)
\* run, lines 70-131: the tasks run for the solutions from index k on; found[k]
\* is the attempt (1..3) at which the dish is recognized, 0 when it never is
shelve_tasks(solutions, found, k) ==
    IF k > Len(solutions) THEN <<>>
    ELSE LET turns == IF found[k] = 0 THEN 3 ELSE found[k] - 1
         IN <<"choose_cooker">>
            \o [t \in 1..turns |-> "menu_page_turning"]
            \o (IF found[k] = 0 THEN <<"push_message">>
                ELSE <<"add_planned_dish", "swipe_menu_bar", "add_dish">>)
            \o shelve_tasks(solutions, found, k + 1)

\* run, lines 22-39: the scans and the construction of the optimizer
MainStart ==
    /\ pc = "run"
    /\ LET chosen == decision(time_arg)
       IN IF chosen.ok
          THEN optimizer' = optimizer_init(dishes_json, player_status, warehouse_scan,
                                           shop_storage_for(option, shop_scan),
                                           chosen.time_limit, DefaultMaxSlots)
          ELSE optimizer' = Raised
    /\ pc' = IF optimizer'.ok THEN "loop" ELSE "raised"
    /\ tasks' = tasks \o <<"warehouse_scan">>
                      \o (IF option # "DoNotBuy" THEN <<"shop_scan">> ELSE <<>>)
    /\ UNCHANGED <<inputs, returned, purchase>>

\* run, lines 42-135: the one pass of the while loop
MainLoop ==
    /\ pc = "loop"
    /\ LET result == find_best_solution(optimizer)
           solutions == result.solutions
           demands == result.purchase_plan
       IN /\ returned' = Append(returned, result)
          /\ IF solutions = <<>>
             THEN tasks' = tasks \o <<"push_message">>
             ELSE \E found \in [1..Len(solutions) -> 0..3] :
                    tasks' = tasks
                        \o (IF purchase_triggered(demands, option)
                            THEN <<"shop_purchase">> ELSE <<>>)
                        \o <<"enter_today_menu", "unshelve_dishes">>
                        \o shelve_tasks(solutions, found, 1)
                        \o <<"click_blank_below">>
    /\ optimizer' = [optimizer EXCEPT !.total_ingredients = total_ingredients_after(optimizer)]
    /\ pc' = "return"
    /\ UNCHANGED <<inputs, purchase>>

\* run, lines 137-139
MainReturn ==
    /\ pc = "return"
    /\ tasks' = tasks \o <<"return_to_main_menu">>
    /\ pc' = "done"
    /\ UNCHANGED <<inputs, optimizer, returned, purchase>>

\* a run on well-formed files with at most one dish
InitMain ==
    /\ \E n \in 0..1 : \E c \in Catalogs(n) : dishes_json = Named(c)
    /\ player_status = StatusFile
    /\ warehouse_scan \in WarehouseScans
    /\ shop_scan \in ShopScans
    /\ time_arg \in Texts
    /\ slots_arg = DefaultMaxSlots
    /\ option \in Options
    /\ pc = "run"
    /\ optimizer = NoOptimizer
    /\ returned = <<>>
    /\ tasks = <<>>
    /\ purchase = NoPurchase

NextMain == MainStart \/ MainLoop \/ MainReturn

SpecMain == InitMain /\ [][NextMain]_vars

(***************************************************************************)
(* ShopPurchase.run (assets/custom/recognition/RestaurantAssistant.py).     *)
(*                                                                         *)
(* json.loads(custom_action_param) is a list of names, as run annotates it, *)
(* or the dict {"demands": ..., "option": ...} that RestaurantMainProcess   *)
(* passes; `text in demands` is membership in the list or in the dict's     *)
(* keys.  One recognition result is its text, whether its score is above    *)
(* ocr_score_threshold, and whether safe_get_roi finds a box.               *)
(* Tasks: enter_restaurant_shop, click_max, click_buy and                   *)
(* return_to_parent_menu stand for the tasks of the pipeline entered,       *)
(* tapped and left by run; shop_page_turning is the swipe, run as a task on *)
(* line 296 and as an action on line 333.                                   *)
(***************************************************************************)
ShopTexts == {"x", "y", "option"}

ListParam(items) == [kind |-> "list", items |-> items]

DictParam == [kind |-> "dict", keys |-> {"demands", "option"}]

PurchaseParams ==
    {ListParam(<<>>), ListParam(<<"x">>), ListParam(<<"y">>), ListParam(<<"x", "y">>), DictParam}

ShopResults == [text : ShopTexts, accurate : BOOLEAN, box : BOOLEAN]

\* filterd_results of one page when it is not empty
PageResults == UNION { [1..n -> ShopResults] : n \in 1..MaxResults }

\* text in demands
contains(demands, text) ==
    IF demands.kind = "list"
    THEN \E i \in 1..Len(demands.items) : demands.items[i] = text
    ELSE text \in demands.keys

\* list.remove(text): the list without the first occurrence of text
list_remove(items, text) ==
    LET first == CHOOSE i \in 1..Len(items) :
                     items[i] = text /\ \A j \in 1..(i - 1) : items[j] # text
    IN SubSeq(items, 1, first - 1) \o SubSeq(items, first + 1, Len(items))

\* run, lines 300-303: the results of the page that are in the demands
current_demands(results, demands) ==
    SelectSeq(results, LAMBDA r : r.accurate /\ contains(demands, r.text))

RECURSIVE purchase_items(_, _, _)
\* run, lines 304-327: the for loop over current_demands from index k on;
\* st holds demands, purchased_items, page_num, the tasks run and whether no
\* exception was raised (dict has no remove: AttributeError)
purchase_items(st, current, k) ==
    IF k > Len(current) \/ ~st.ok THEN st
    ELSE LET current_demand == current[k]
         IN IF \E i \in 1..Len(st.purchased_items) :
                  st.purchased_items[i] = current_demand.text
            THEN purchase_items([st EXCEPT !.page_num = 3], current, k + 1)
            ELSE IF ~current_demand.box
            THEN purchase_items(st, current, k + 1)
            ELSE LET bought ==
                        [st EXCEPT !.tasks = @ \o <<"click_item", "click_max", "click_buy">>,
                                   !.purchased_items = Append(@, current_demand.text)]
                 IN IF st.demands.kind = "list"
                    THEN purchase_items(
                            [bought EXCEPT !.demands =
                                ListParam(list_remove(@.items, current_demand.text))],
                            current, k + 1)
                    ELSE [bought EXCEPT !.ok = FALSE]

\* run, lines 277-283: the argument is parsed and the shop entered
PurchaseStart ==
    /\ pc = "purchase"
    /\ purchase' = [demands |-> purchase.custom_action_param,
                    purchased_items |-> <<>>,
                    page_num |-> 1]
    /\ tasks' = tasks \o <<"enter_restaurant_shop">>
    /\ pc' = "page"
    /\ UNCHANGED <<inputs, optimizer, returned>>

\* run, lines 284-298: one pass of the while loop on a page where nothing is
\* recognized: the page is turned and the loop continues
PurchaseNoResult ==
    /\ pc = "page"
    /\ purchase.page_num < MaxPageNum
    /\ tasks' = tasks \o <<"shop_page_turning">>
    /\ purchase' = [purchase EXCEPT !.page_num = @ + 1]
    /\ UNCHANGED <<inputs, pc, optimizer, returned>>

\* run, lines 284-336: one pass of the while loop on a page with results; on
\* the break the parent menu is returned to and run returns
PurchasePage ==
    /\ pc = "page"
    /\ \E results \in PageResults :
          LET st == purchase_items(
                        [ok |-> TRUE, demands |-> purchase.demands,
                         purchased_items |-> purchase.purchased_items,
                         page_num |-> purchase.page_num, tasks |-> tasks],
                        current_demands(results, purchase.demands), 1)
              break == st.page_num >= 3
          IN /\ pc' = IF ~st.ok THEN "raised" ELSE IF break THEN "done" ELSE "page"
             /\ tasks' = st.tasks \o (IF ~st.ok THEN <<>>
                                      ELSE IF break THEN <<"return_to_parent_menu">>
                                      ELSE <<"shop_page_turning">>)
             /\ purchase' = [demands |-> st.demands,
                             purchased_items |-> st.purchased_items,
                             page_num |-> IF st.ok /\ ~break THEN st.page_num + 1
                                          ELSE st.page_num]
    /\ UNCHANGED <<inputs, optimizer, returned>>

\* ShopPurchase.run is entered with its argument
InitPurchase ==
    /\ dishes_json = <<>>
    /\ player_status = StatusFile
    /\ warehouse_scan = [x |-> 0, y |-> 0]
    /\ shop_scan = EmptyDict
    /\ time_arg = Frac(3, 2)
    /\ slots_arg = DefaultMaxSlots
    /\ option = "BuyAllDemand"
    /\ pc = "purchase"
    /\ optimizer = NoOptimizer
    /\ returned = <<>>
    /\ tasks = <<>>
    /\ \E param \in PurchaseParams :
          purchase = [custom_action_param |-> param, page_num |-> 0]

NextPurchase == PurchaseStart \/ PurchaseNoResult \/ PurchasePage

SpecPurchase == InitPurchase /\ [][NextPurchase]_vars

(***************************************************************************)
(* Vocabulary of the properties.                                           *)
(***************************************************************************)
SetMax(S) == CHOOSE m \in S : \A x \in S : x <= m

\* the calls made so far
Calls == 1..Len(returned)

RECURSIVE SumOver(_, _, _)
\* sum over the entries e of sol from index k on of term(e)
SumOver(sol, k, i) ==
    IF k > Len(sol) THEN 0
    ELSE sol[k].count * Get(sol[k].dish.ingredients, i, 0) + SumOver(sol, k + 1, i)

\* what the plan entries sol need of ingredient i in all
Demand(sol, i) == SumOver(sol, 1, i)

\* what the plan entries before the e-th need of ingredient i
DemandBefore(sol, e, i) == SumOver(SubSeq(sol, 1, e - 1), 1, i)

\* the pool: warehouse plus shop
Pool(i) == Get(optimizer.warehouse_storage, i, 0) + Get(optimizer.purchasable_ingredients, i, 0)

\* the profit of plan entries
RECURSIVE ProfitFrom(_, _)
ProfitFrom(sol, k) ==
    IF k > Len(sol) THEN 0 ELSE sol[k].count * sol[k].dish.price + ProfitFrom(sol, k + 1)

Profit(sol) == ProfitFrom(sol, 1)

Unlocked == 1..Len(optimizer.unlocked_dishes)

UnlockedPairs == { p \in Unlocked \X Unlocked : p[1] < p[2] }

\* two entries that both are produced and both need ingredient i
SharedPlan(sol, i) ==
    /\ Len(sol) = 2
    /\ sol[1].count >= 1 /\ sol[2].count >= 1
    /\ i \in Required(sol[1].dish) \cap Required(sol[2].dish)

(***************************************************************************)
(* C1: every allocation find_best_solution returns is feasible: for each    *)
(* dish, count * time <= the horizon in minutes, and for each ingredient    *)
(* the allocation needs no more than the pool (warehouse + shop) holds.     *)
(***************************************************************************)
C1_Feasible ==
    \A k \in Calls :
        LET sol == returned[k].solutions
        IN /\ \A e \in 1..Len(sol) : sol[e].count * sol[e].dish.time <= optimizer.time_limit
           /\ \A i \in Ingredients : Demand(sol, i) <= Pool(i)

\* two dishes are produced that share an ingredient and use up all of it
C1_Witness ==
    \E k \in Calls : \E i \in Ingredients :
        /\ SharedPlan(returned[k].solutions, i)
        /\ Demand(returned[k].solutions, i) = Pool(i)

(***************************************************************************)
(* C2: with max_slots = 2, prices >= 0 and every dish needing some          *)
(* ingredient, the profit of the returned allocation is the maximum over    *)
(* all feasible allocations of one dish or of two distinct dishes.          *)
(***************************************************************************)
\* the time budget of a dish: a dish with no production time is never scheduled
TimeOk(dish, c) == c = 0 \/ (dish.time > 0 /\ c * dish.time <= optimizer.time_limit)

\* no dish that needs an ingredient can be made more often than the pool is large
Counts == 0..(2 * MaxStock)

FeasibleProfits ==
    {0}
    \cup { c * optimizer.unlocked_dishes[a].price : <<a, c>> \in
             { ac \in Unlocked \X Counts :
                 LET d == optimizer.unlocked_dishes[ac[1]]
                 IN /\ TimeOk(d, ac[2])
                    /\ \A i \in Ingredients : ac[2] * Get(d.ingredients, i, 0) <= Pool(i) } }
    \cup { q[2] * optimizer.unlocked_dishes[q[1][1]].price
            + q[3] * optimizer.unlocked_dishes[q[1][2]].price : q \in
             { pcc \in UnlockedPairs \X Counts \X Counts :
                 LET d1 == optimizer.unlocked_dishes[pcc[1][1]]
                     d2 == optimizer.unlocked_dishes[pcc[1][2]]
                 IN /\ TimeOk(d1, pcc[2]) /\ TimeOk(d2, pcc[3])
                    /\ \A i \in Ingredients :
                          pcc[2] * Get(d1.ingredients, i, 0)
                          + pcc[3] * Get(d2.ingredients, i, 0) <= Pool(i) } }

AllNeedSomething == \A a \in Unlocked : Required(optimizer.unlocked_dishes[a]) # {}

C2_Optimal ==
    \A k \in Calls :
        (optimizer.max_slots = 2 /\ AllNeedSomething)
            => Profit(returned[k].solutions) = SetMax(FeasibleProfits)

\* two dishes share an ingredient, both are produced, and the split earns
\* more than any single dish could
C2_Witness ==
    \E k \in Calls : \E i \in Ingredients :
        /\ optimizer.max_slots = 2 /\ AllNeedSomething
        /\ SharedPlan(returned[k].solutions, i)
        /\ \A a \in Unlocked :
              optimize_single_dish(optimizer, optimizer.unlocked_dishes[a]).profit
                  < Profit(returned[k].solutions)

(***************************************************************************)
(* C3 (as stated): for all catalogs, pools and horizons the best profit of  *)
(* the two-item search (the maximum of _optimize_two_dishes over all pairs  *)
(* of unlocked dishes) is >= the best single-item profit (the maximum of    *)
(* _optimize_single_dish over all unlocked dishes).  A search over no       *)
(* candidate finds profit 0.                                               *)
(***************************************************************************)
BestOf(profits) == IF profits = {} THEN 0 ELSE SetMax(profits)

single_item_best_profit ==
    BestOf({ optimize_single_dish(optimizer, optimizer.unlocked_dishes[a]).profit :
               a \in Unlocked })

two_item_best_profit ==
    BestOf({ optimize_two_dishes(optimizer, optimizer.unlocked_dishes[p[1]],
                                 optimizer.unlocked_dishes[p[2]]).profit :
               p \in UnlockedPairs })

C3_Original ==
    returned # <<>> => two_item_best_profit >= single_item_best_profit

(***************************************************************************)
(* C3 (amended): for catalogs with at least two unlocked dishes and prices  *)
(* >= 0, the best profit of the two-item search is >= the best single-item  *)
(* profit.                                                                 *)
(***************************************************************************)
C3_TwoItemAtLeastSingle ==
    (returned # <<>> /\ Len(optimizer.unlocked_dishes) >= 2)
        => two_item_best_profit >= single_item_best_profit

\* a pair earns strictly more than the best single dish, which earns something
C3_Witness ==
    /\ returned # <<>>
    /\ Len(optimizer.unlocked_dishes) >= 2
    /\ AllNeedSomething
    /\ single_item_best_profit > 0
    /\ two_item_best_profit > single_item_best_profit

(***************************************************************************)
(* C4: the purchase plan maps each of its ingredients to                    *)
(* max(0, demand of the whole returned allocation - warehouse quantity):    *)
(* values are >= 0, keys are ingredients the shop sells, and an entry is 0  *)
(* when the warehouse alone covers the demand.                              *)
(***************************************************************************)
Warehouse(n) == Get(optimizer.warehouse_storage, n, 0)

C4_PurchasePlan ==
    \A k \in Calls :
        LET sol == returned[k].solutions
            plan == returned[k].purchase_plan
        IN \A n \in DOMAIN plan :
              /\ n \in DOMAIN optimizer.purchasable_ingredients
              /\ plan[n] >= 0
              /\ plan[n] = (IF Demand(sol, n) - Warehouse(n) > 0
                            THEN Demand(sol, n) - Warehouse(n) ELSE 0)
              /\ (Demand(sol, n) <= Warehouse(n)) => plan[n] = 0

\* two dishes are produced; the warehouse holds part of what they need of an
\* ingredient and the rest is to be bought
C4_Witness ==
    \E k \in Calls : \E n \in DOMAIN returned[k].purchase_plan :
        /\ SharedPlan(returned[k].solutions, n)
        /\ Warehouse(n) > 0
        /\ returned[k].purchase_plan[n] > 0

(***************************************************************************)
(* C5 (as stated): the purchase plan holds only ingredients whose shortfall *)
(* is positive: no key maps to 0.                                           *)
(***************************************************************************)
C5_Original ==
    \A k \in Calls : \A n \in DOMAIN returned[k].purchase_plan :
        returned[k].purchase_plan[n] # 0

(***************************************************************************)
(* C5 (amended): the keys of the purchase plan are exactly the ingredients  *)
(* the shop sells that a returned dish lists; an entry is positive exactly  *)
(* when the demand exceeds the warehouse quantity, and an ingredient with   *)
(* no shortfall is kept with the value 0.                                   *)
(***************************************************************************)
Listed(sol) == UNION { DOMAIN sol[e].dish.ingredients : e \in 1..Len(sol) }

C5_ShortfallOrZero ==
    \A k \in Calls :
        LET sol == returned[k].solutions
            plan == returned[k].purchase_plan
        IN /\ DOMAIN plan = Listed(sol) \cap DOMAIN optimizer.purchasable_ingredients
           /\ \A n \in DOMAIN plan :
                 IF Demand(sol, n) > Warehouse(n) THEN plan[n] > 0 ELSE plan[n] = 0

\* the warehouse covers an ingredient that is produced with and that the shop
\* sells: the plan keeps it with 0
C5_Witness ==
    \E k \in Calls : \E n \in DOMAIN returned[k].purchase_plan :
        /\ Demand(returned[k].solutions, n) > 0
        /\ returned[k].purchase_plan[n] = 0

(***************************************************************************)
(* C6: every plan entry has a fill ratio in [0,1]: for each of its          *)
(* ingredients needed in positive quantity, count <= max_makeable from the  *)
(* pool that the earlier entries of the plan have left.                     *)
(***************************************************************************)
\* what is left of ingredient i at the turn of the e-th entry
LeftAt(sol, e, i) == Get(optimizer.total_ingredients, i, 0) - DemandBefore(sol, e, i)

C6_FillRatio ==
    \A k \in Calls :
        LET sol == returned[k].solutions
        IN \A e \in 1..Len(sol) :
              /\ sol[e].bar_ratio.d > 0
              /\ 0 <= sol[e].bar_ratio.n
              /\ sol[e].bar_ratio.n <= sol[e].bar_ratio.d
              /\ \A i \in Required(sol[e].dish) :
                    sol[e].count <= LeftAt(sol, e, i) \div sol[e].dish.ingredients[i]

\* the second entry takes all that the first has left of a shared ingredient
C6_Witness ==
    \E k \in Calls : \E i \in Ingredients :
        LET sol == returned[k].solutions
        IN /\ SharedPlan(sol, i)
           /\ sol[2].bar_ratio.n = sol[2].bar_ratio.d
           /\ sol[2].count < Pool(i) \div sol[2].dish.ingredients[i]

NothingPays == single_item_best_profit <= 0 /\ two_item_best_profit <= 0

C8_EmptyPlan ==
    \A k \in Calls :
        (optimizer.unlocked_dishes = <<>> \/ NothingPays)
            => returned[k] = [solutions |-> <<>>, purchase_plan |-> EmptyDict]

\* there are dishes that sell at a price within the horizon, the pool lacks
\* their ingredients so that nothing pays, and the call returned
C8_Witness ==
    /\ Len(optimizer.unlocked_dishes) = 2
    /\ optimizer.time_limit > 0
    /\ \A a \in Unlocked :
          LET d == optimizer.unlocked_dishes[a]
          IN d.price > 0 /\ d.time > 0 /\ Required(d) # {}
    /\ NothingPays
    /\ returned # <<>>
    /\ returned[1] = [solutions |-> <<>>, purchase_plan |-> EmptyDict]

(***************************************************************************)
(* C9: when the horizon supplied to run is non-positive or not a number,    *)
(* the optimizer is built with the default horizon (24 hours = 1440         *)
(* minutes) and run does not fail.                                          *)
(***************************************************************************)
\* the texts that are no number or denote a number <= 0
InvalidHorizons == {"0", "-1", "-inf", "nan", "abc", ""}

C9_DefaultOnInvalidHorizon ==
    (pc # "run" /\ time_arg \in InvalidHorizons)
        => /\ pc # "raised"
           /\ optimizer.ok
           /\ optimizer.time_limit = DefaultTimeLimit * 60

(***************************************************************************)
(* C10 (as stated): loading fails whenever a dish record lacks price,       *)
(* production time, unlock level or ingredient map, or the player-status    *)
(* record lacks levels or ingredient names; no dish is constructed from a   *)
(* record that lacks one of these fields.                                   *)
(***************************************************************************)
Records == 1..Len(dishes_json)

Lacks(k, keys) == ~(keys \subseteq DOMAIN dishes_json[k].record)

StatusLacksField == ~({"levels", "ingredients"} \subseteq DOMAIN player_status)

C10_Original ==
    pc # "start" =>
        /\ ((\E k \in Records : Lacks(k, {"profit", "sell_time", "unlock_level", "ingredients"}))
             \/ StatusLacksField) => pc = "raised"
        /\ pc = "ready" =>
              \A a \in Unlocked :
                  ~Lacks(optimizer.unlocked_dishes[a].name,
                         {"profit", "sell_time", "unlock_level", "ingredients"})

(***************************************************************************)
(* C10 (amended): loading fails whenever a dish record lacks its id or its  *)
(* ingredient map, or the player-status record lacks levels or ingredient   *)
(* names, or a dish's cookware has no level, and only then; a record that   *)
(* lacks price, production time or unlock level is loaded with the defaults *)
(* 0, 0 and 3.                                                              *)
(***************************************************************************)
MustRaise ==
    \/ StatusLacksField
    \/ \E k \in Records : Lacks(k, {"dish_id", "ingredients"})
    \/ \E k \in Records : dishes_json[k].cookware \notin DOMAIN player_status["levels"]

C10_RequiredFields ==
    pc # "start" =>
        /\ pc = "raised" <=> MustRaise
        /\ pc = "ready" =>
              \A a \in Unlocked :
                  LET dish == optimizer.unlocked_dishes[a]
                      record == dishes_json[dish.name].record
                  IN /\ "profit" \notin DOMAIN record => dish.price = 0
                     /\ "sell_time" \notin DOMAIN record => dish.time = 0
                     /\ "unlock_level" \notin DOMAIN record => dish.unlock_level = 3

\* a dish is constructed and unlocked from a record that has only its id and
\* its ingredient map
C10_Witness ==
    /\ pc = "ready"
    /\ \E a \in Unlocked :
          DOMAIN dishes_json[optimizer.unlocked_dishes[a].name].record
              = {"dish_id", "ingredients"}

(***************************************************************************)
(* C11: the unlocked dish list is exactly the catalog dishes whose unlock   *)
(* level is at most the player's level for the dish's cookware, in catalog  *)
(* order; a catalog dish whose cookware is absent from the level map makes  *)
(* the construction fail.                                                   *)
(***************************************************************************)
\* the catalog records that pass the filter, from the files
Produceable ==
    { k \in Records :
        Get(dishes_json[k].record, "unlock_level", DefaultUnlockLevel)
            <= player_status["levels"][dishes_json[k].cookware] }

UnknownCookware ==
    /\ "levels" \in DOMAIN player_status
    /\ \E k \in Records : dishes_json[k].cookware \notin DOMAIN player_status["levels"]

C11_UnlockedFilter ==
    /\ (pc # "start" /\ UnknownCookware) => pc = "raised"
    /\ pc = "ready" =>
          /\ { optimizer.unlocked_dishes[a].name : a \in Unlocked } = Produceable
          /\ \A a, b \in Unlocked :
                a < b => optimizer.unlocked_dishes[a].name < optimizer.unlocked_dishes[b].name
          /\ \A a \in Unlocked :
                optimizer.unlocked_dishes[a].cookware
                    = dishes_json[optimizer.unlocked_dishes[a].name].cookware

\* of two catalog dishes on different cookware the first is locked and the
\* second, at exactly the player's level, is unlocked
C11_Witness ==
    /\ pc = "ready"
    /\ Len(dishes_json) = 2
    /\ Produceable = {2}
    /\ dishes_json[1].cookware # dishes_json[2].cookware
    /\ optimizer.unlocked_dishes[1].unlock_level
          = player_status["levels"][dishes_json[2].cookware]

\* a catalog dish on a cookware without a level: the construction has failed
C11_WitnessUnknownCookware ==
    /\ pc = "raised"
    /\ UnknownCookware
    /\ ~StatusLacksField
    /\ \A k \in Records : ~Lacks(k, {"dish_id", "ingredients"})

(***************************************************************************)
(* C12: with max_slots = 1 only the single-item search runs:                *)
(* find_best_solution returns at most one plan entry, and it is the best    *)
(* single-dish result, whatever the pairs would have yielded.               *)
(***************************************************************************)
C12_SingleSlot ==
    (pc = "ready" /\ optimizer.max_slots = 1) =>
        \A i \in Calls :
            LET sol == returned[i].solutions
            IN /\ Len(sol) <= 1
               /\ Profit(sol) = single_item_best_profit
               /\ Len(sol) = 1 =>
                     \E a \in Unlocked :
                        /\ sol[1].dish = optimizer.unlocked_dishes[a]
                        /\ sol[1].count
                              = optimize_single_dish(optimizer, sol[1].dish).count
                        /\ \A b \in 1..(a - 1) :
                              optimize_single_dish(optimizer,
                                  optimizer.unlocked_dishes[b]).profit < Profit(sol)

\* one slot, a call made, every dish needs some ingredient, and a pair would
\* have yielded strictly more than the best single dish
C12_Witness ==
    /\ pc = "ready"
    /\ optimizer.max_slots = 1
    /\ Calls # {}
    /\ Len(returned[1].solutions) = 1
    /\ two_item_best_profit > single_item_best_profit
    /\ AllNeedSomething

(***************************************************************************)
(* C13: plan entries are realized in allocation order with the ingredient   *)
(* pool threaded between them: the fill ratio of an entry is computed from  *)
(* the total pool minus what the entries before it consume (count times     *)
(* requirement per ingredient), not from the full pool, and no remaining    *)
(* quantity that _calc_bar_ratio produces is negative.                      *)
(***************************************************************************)
FracEq(a, b) == a.n * b.d = b.n * a.d

\* the ratio ingredient i asks of the e-th entry, on what is left at its turn
RatioOn(sol, e, i) ==
    LET max_makeable == LeftAt(sol, e, i) \div sol[e].dish.ingredients[i]
    IN IF max_makeable > 0 THEN Frac(sol[e].count, max_makeable) ELSE Frac(0, 1)

RECURSIVE RemainingAfterEntry(_, _)
\* the ingredients _calc_bar_ratio returns for the e-th entry
RemainingAfterEntry(sol, e) ==
    IF e = 0 THEN optimizer.total_ingredients
    ELSE calc_bar_ratio(sol[e].dish, sol[e].count, RemainingAfterEntry(sol, e - 1)).remaining

C13_PoolThreaded ==
    \A k \in Calls :
        LET sol == returned[k].solutions
        IN \A e \in 1..Len(sol) :
              /\ \A i \in Required(sol[e].dish) :
                    ~FracLess(sol[e].bar_ratio, RatioOn(sol, e, i))
              /\ Required(sol[e].dish) # {} =>
                    \E i \in Required(sol[e].dish) :
                        FracEq(sol[e].bar_ratio, RatioOn(sol, e, i))
              /\ Required(sol[e].dish) = {} => sol[e].bar_ratio.n = 0
              /\ \A i \in DOMAIN RemainingAfterEntry(sol, e) :
                    /\ RemainingAfterEntry(sol, e)[i] >= 0
                    /\ RemainingAfterEntry(sol, e)[i] = LeftAt(sol, e + 1, i)

\* both entries need ingredient i, the first leaves some of it, and the fill
\* ratio of the second is above what the full pool would give
C13_Witness ==
    \E k \in Calls : \E i \in Ingredients :
        LET sol == returned[k].solutions
        IN /\ SharedPlan(sol, i)
           /\ RemainingAfterEntry(sol, 1)[i] > 0
           /\ RemainingAfterEntry(sol, 1)[i] < Pool(i)
           /\ FracLess(Frac(sol[2].count, Pool(i) \div sol[2].dish.ingredients[i]),
                       sol[2].bar_ratio)

(***************************************************************************)
(* C14: in the two-item search each pair is oriented so that the dish with  *)
(* the lower profit rate (price / time) is the one whose count the outer    *)
(* loop enumerates, and the dish with the higher profit rate gets the       *)
(* derived maximum count.                                                   *)
(***************************************************************************)
C14_LowerRateEnumerated ==
    (pc = "ready" /\ Calls # {} /\ optimizer.max_slots >= 2) =>
        \A p \in UnlockedPairs :
            LET dish1 == optimizer.unlocked_dishes[p[1]]
                dish2 == optimizer.unlocked_dishes[p[2]]
            IN ~FracLess(profit_rate(derived(dish1, dish2)),
                         profit_rate(enumerated(dish1, dish2)))

\* what the code does: the enumerated dish never has the lower profit rate
C14_HigherRateEnumerated ==
    (pc = "ready" /\ Calls # {} /\ optimizer.max_slots >= 2) =>
        \A p \in UnlockedPairs :
            LET dish1 == optimizer.unlocked_dishes[p[1]]
                dish2 == optimizer.unlocked_dishes[p[2]]
            IN ~FracLess(profit_rate(enumerated(dish1, dish2)),
                         profit_rate(derived(dish1, dish2)))

(***************************************************************************)
(* C15: the orientation of a pair has no effect on the result of the        *)
(* two-item search: for every pair of dishes, pool and horizon,             *)
(* _optimize_two_dishes yields the same best profit and the same per-dish   *)
(* counts whichever of the two dishes the outer loop enumerates.            *)
(***************************************************************************)
\* the result (counts for dish1 and dish2, profit) with dish1 enumerated
Outer1(dish1, dish2) ==
    two_dishes_loop(optimizer, dish1, dish2, FALSE, 0, [counts |-> <<0, 0>>, profit |-> 0])

\* the result (counts for dish1 and dish2, profit) with dish2 enumerated
Outer2(dish1, dish2) ==
    two_dishes_loop(optimizer, dish2, dish1, TRUE, 0, [counts |-> <<0, 0>>, profit |-> 0])

C15_OrientationNoEffect ==
    (pc = "ready" /\ Calls # {} /\ optimizer.max_slots >= 2) =>
        \A p \in UnlockedPairs :
            LET dish1 == optimizer.unlocked_dishes[p[1]]
                dish2 == optimizer.unlocked_dishes[p[2]]
            IN Outer1(dish1, dish2) = Outer2(dish1, dish2)

\* where every dish needs some ingredient the two orientations agree on the
\* best profit (not on the counts, which differ where allocations tie)
C15_SameProfit ==
    (pc = "ready" /\ Calls # {} /\ optimizer.max_slots >= 2 /\ AllNeedSomething) =>
        \A p \in UnlockedPairs :
            LET dish1 == optimizer.unlocked_dishes[p[1]]
                dish2 == optimizer.unlocked_dishes[p[2]]
            IN Outer1(dish1, dish2).profit = Outer2(dish1, dish2).profit

(***************************************************************************)
(* C16: ties are resolved by first-encountered order: the candidate         *)
(* find_best_solution returns is the first one, in enumeration order (the   *)
(* single dishes in catalog order, then the pairs in combinations order),   *)
(* that attains the maximum profit; a later candidate of equal profit never *)
(* replaces it, so a pair is returned only when its profit is strictly      *)
(* higher than the best single-dish profit.                                 *)
(***************************************************************************)
\* the candidates in the order find_best_solution meets them
Candidates ==
    LET n == Len(optimizer.unlocked_dishes)
        pairs == combinations(n)
        singles == [c \in 1..n |->
            LET dish == optimizer.unlocked_dishes[c]
                r == optimize_single_dish(optimizer, dish)
            IN [dishes |-> <<dish>>, counts |-> <<r.count>>, profit |-> r.profit]]
        doubles == [c \in 1..Len(pairs) |->
            LET dish1 == optimizer.unlocked_dishes[pairs[c][1]]
                dish2 == optimizer.unlocked_dishes[pairs[c][2]]
                r == optimize_two_dishes(optimizer, dish1, dish2)
            IN [dishes |-> <<dish1, dish2>>, counts |-> r.counts, profit |-> r.profit]]
    IN singles \o doubles

\* the plan entries sol are the candidate cand
IsCandidate(sol, cand) ==
    /\ Len(sol) = Len(cand.dishes)
    /\ \A e \in 1..Len(sol) :
          /\ sol[e].dish = cand.dishes[e]
          /\ sol[e].count = cand.counts[e]

\* c is the first of the candidates cands that attains their maximum profit
FirstBest(cands, c) ==
    /\ \A b \in 1..Len(cands) : cands[b].profit <= cands[c].profit
    /\ \A b \in 1..(c - 1) : cands[b].profit < cands[c].profit

C16_FirstEncountered ==
    (pc = "ready" /\ optimizer.max_slots >= 2) =>
        \A k \in Calls :
            LET sol == returned[k].solutions
                cands == Candidates
            IN /\ sol = <<>> => \A c \in 1..Len(cands) : cands[c].profit <= 0
               /\ sol # <<>> =>
                     \E c \in 1..Len(cands) :
                        /\ IsCandidate(sol, cands[c])
                        /\ FirstBest(cands, c)
                        /\ cands[c].profit > 0
               /\ Len(sol) = 2 => Profit(sol) > single_item_best_profit

\* three dishes: the pair returned is the first pair, and a later pair and no
\* single dish attains the same profit
C16_Witness ==
    /\ pc = "ready"
    /\ Calls # {}
    /\ Len(optimizer.unlocked_dishes) = 3
    /\ LET cands == Candidates
       IN /\ FirstBest(cands, 4)
          /\ IsCandidate(returned[1].solutions, cands[4])
          /\ \E c \in 5..6 : cands[c].profit = cands[4].profit

(***************************************************************************)
(* C17: a dish that requires no ingredient in positive quantity never       *)
(* manufactures free profit: in every allocation find_best_solution returns *)
(* (single or pair) such a dish has count 0, i.e. every returned count is   *)
(* at most min(time_limit(dish), ingredient_limit(dish, full pool)).        *)
(***************************************************************************)
C17_NoFreeProfit ==
    \A k \in Calls :
        LET sol == returned[k].solutions
        IN \A e \in 1..Len(sol) :
              /\ Required(sol[e].dish) = {} => sol[e].count = 0
              /\ sol[e].count
                    <= Min(calc_time_limit(optimizer, sol[e].dish),
                           calc_ingredient_limit(sol[e].dish, optimizer.total_ingredients))

(***************************************************************************)
(* C18: ShopPurchase.run is a bounded retry: for every sequence of          *)
(* recognition results (pages on which nothing is recognized included) it   *)
(* makes at most two page-turn swipes, then runs the return-to-parent-menu  *)
(* task and terminates.                                                     *)
(***************************************************************************)
\* the page-turn swipes made so far
Swipes == Cardinality({ t \in 1..Len(tasks) : tasks[t] = "shop_page_turning" })

C18_AtMostTwoSwipes ==
    pc \in {"page", "done"} =>
        /\ Swipes <= 2
        /\ pc = "done" => tasks[Len(tasks)] = "return_to_parent_menu"

(***************************************************************************)
(* C19: RestaurantMainProcess.run runs the shop_purchase task if and only   *)
(* if the plan is not empty, the purchase plan (demands) is not empty, and  *)
(* the option is BuyAllDemand, or OnlyBuyDemand with a demand above 0; with *)
(* the option DoNotBuy the shop is not scanned, its stock is not counted as *)
(* available, and shop_purchase is never run.                               *)
(***************************************************************************)
Ran(task) == \E t \in 1..Len(tasks) : tasks[t] = task

C19_PurchaseTrigger ==
    /\ pc \in {"return", "done"} =>
          LET solutions == returned[1].solutions
              demands == returned[1].purchase_plan
          IN Ran("shop_purchase") <=>
                /\ solutions # <<>>
                /\ DOMAIN demands # {}
                /\ \/ option = "BuyAllDemand"
                   \/ /\ option = "OnlyBuyDemand"
                      /\ \E n \in DOMAIN demands : demands[n] > 0
    /\ pc = "run" => ~Ran("shop_purchase")
    /\ (option = "DoNotBuy" /\ pc \in {"loop", "return", "done"}) =>
          /\ ~Ran("shop_scan")
          /\ ~Ran("shop_purchase")
          /\ optimizer.purchasable_ingredients = EmptyDict
          /\ \A n \in DOMAIN optimizer.total_ingredients :
                optimizer.total_ingredients[n] = Get(warehouse_scan, n, 0)
    /\ (option # "DoNotBuy" /\ pc # "run") => Ran("shop_scan")

\* under OnlyBuyDemand a plan is shelved whose demands are all covered by the
\* warehouse: the purchase plan is not empty, all its values are 0, and the
\* shop is not visited
C19_Witness ==
    /\ pc = "done"
    /\ option = "OnlyBuyDemand"
    /\ returned[1].solutions # <<>>
    /\ DOMAIN returned[1].purchase_plan # {}
    /\ \A n \in DOMAIN returned[1].purchase_plan : returned[1].purchase_plan[n] = 0
    /\ ~Ran("shop_purchase")
    /\ Ran("add_dish")

\* under DoNotBuy a dish is shelved from the warehouse while the shop holds
\* stock that is not scanned
C19_WitnessDoNotBuy ==
    /\ pc = "done"
    /\ option = "DoNotBuy"
    /\ returned[1].solutions # <<>>
    /\ ~Ran("shop_scan")
    /\ Get(shop_scan, "x", 0) > 0

(***************************************************************************)
(* C20: the purchase plan is always realizable from the shop: for every     *)
(* ingredient in the purchase plan find_best_solution returns, the quantity *)
(* to buy is at most the shop's quantity of that ingredient, for every      *)
(* catalog, warehouse pool, shop pool and horizon.                          *)
(***************************************************************************)
C20_Realizable ==
    \A k \in Calls :
        LET plan == returned[k].purchase_plan
        IN \A n \in DOMAIN plan :
              /\ n \in DOMAIN shop_scan
              /\ plan[n] <= shop_scan[n]

\* a plan that buys the whole stock of the shop of an ingredient the
\* warehouse holds too
C20_Witness ==
    \E k \in Calls : \E n \in DOMAIN returned[k].purchase_plan :
        /\ returned[k].purchase_plan[n] = shop_scan[n]
        /\ shop_scan[n] > 0
        /\ Get(warehouse_scan, n, 0) > 0
        /\ AllNeedSomething

(***************************************************************************)
(* C21: when every unlocked dish requires some ingredient in positive       *)
(* quantity and prices are not negative, every plan entry                   *)
(* find_best_solution returns has count >= 1: a two-dish plan is never      *)
(* returned with one of its dishes at count 0, because such a pair cannot   *)
(* have a strictly higher profit than the best single dish.                 *)
(***************************************************************************)
NoNegativePrice == \A a \in Unlocked : optimizer.unlocked_dishes[a].price >= 0

C21_EveryEntryProduced ==
    (AllNeedSomething /\ NoNegativePrice) =>
        \A k \in Calls :
            LET sol == returned[k].solutions
            IN \A e \in 1..Len(sol) : sol[e].count >= 1

\* two dishes that both need something, pay and take time: the pair search ends on an
\* allocation with one dish at count 0, of the profit of the best single
\* dish, and the single dish is what is returned
C21_Witness ==
    /\ pc = "ready"
    /\ Calls # {}
    /\ optimizer.max_slots >= 2
    /\ Len(optimizer.unlocked_dishes) = 2
    /\ AllNeedSomething
    /\ \A a \in Unlocked : /\ optimizer.unlocked_dishes[a].price > 0
                          /\ optimizer.unlocked_dishes[a].time > 0
    /\ LET pair == optimize_two_dishes(optimizer, optimizer.unlocked_dishes[1],
                                       optimizer.unlocked_dishes[2])
           sol == returned[1].solutions
       IN /\ \E e \in 1..2 : pair.counts[e] = 0
          /\ pair.profit > 0
          /\ pair.profit = single_item_best_profit
          /\ Len(sol) = 1
          /\ sol[1].count >= 1

====
